---- MODULE Spec2Model ----
(***************************************************************************)
(* Siteswap generator: the pattern validator (parseSiteswap) and the       *)
(* flight planner (buildSimulationPlan).                                   *)
(*                                                                         *)
(* A string is a sequence of one-character strings.  parseSiteswap is an   *)
(* operator computed the way the code computes it (normalise, map each     *)
(* character through CHAR_MAP, then the checks in source order).           *)
(* buildSimulationPlan is a loop; one action is one iteration of its       *)
(* for-loop, so that the pending-landing table can be observed after       *)
(* every beat.                                                             *)
(***************************************************************************)
EXTENDS Integers, Sequences, FiniteSets, TLC

\* ---------------------------------------------------------------- bounds
MaxLen == 4          \* longest raw input / longest directly planned pattern
MaxLoops == 2        \* largest repetition count passed to the planner
MaxBalls == 3        \* largest ball count passed by a direct caller
MaxDirectThrow == 3  \* largest height in a directly planned pattern

\* ------------------------------------------------------------- constants
CHAR_MAP ==
  << "0","1","2","3","4","5","6","7","8","9",
     "a","b","c","d","e","f","g","h","i","j","k","l","m",
     "n","o","p","q","r","s","t","u","v","w","x","y","z" >>

UPPER ==
  << "A","B","C","D","E","F","G","H","I","J","K","L","M",
     "N","O","P","Q","R","S","T","U","V","W","X","Y","Z" >>

\* The value of x % 0 in JavaScript; it is not a number of any range.
NaN == -1

\* Characters the modelled user can type: the digits of the documented
\* scenarios, one whitespace, one upper-case letter, one unsupported symbol.
InputChars == {"0","1","2","3","4","5","6"," ","A","!"}

RECURSIVE SeqsUpTo(_, _)
SeqsUpTo(S, n) ==
  IF n = 0 THEN {<< >>}
  ELSE LET shorter == SeqsUpTo(S, n - 1)
       IN  shorter \cup {Append(s, x) : s \in {t \in shorter : Len(t) = n - 1}, x \in S}

RawInputs == SeqsUpTo(InputChars, MaxLen)
DirectPatterns == SeqsUpTo(0..MaxDirectThrow, MaxLen)

\* ------------------------------------------------------ parseSiteswap
toLowerCase(c) ==
  IF \E i \in 1..Len(UPPER) : UPPER[i] = c
  THEN CHAR_MAP[10 + (CHOOSE i \in 1..Len(UPPER) : UPPER[i] = c)]
  ELSE c

isWhitespace(c) == c \in {" ", "\t", "\n", "\r"}

\* rawInput.toLowerCase().replace(/\s+/g, "")
RECURSIVE cleanedOf(_)
cleanedOf(raw) ==
  IF raw = << >> THEN << >>
  ELSE LET c == toLowerCase(Head(raw))
       IN  IF isWhitespace(c) THEN cleanedOf(Tail(raw))
           ELSE << c >> \o cleanedOf(Tail(raw))

\* CHAR_MAP.indexOf(char): zero-based position of the first match, or -1
indexOf(c) ==
  IF \E i \in 1..Len(CHAR_MAP) : CHAR_MAP[i] = c
  THEN (CHOOSE i \in 1..Len(CHAR_MAP) :
          CHAR_MAP[i] = c /\ \A j \in 1..(i - 1) : CHAR_MAP[j] # c) - 1
  ELSE -1

\* the for-of loop: the pattern so far, or the first unsupported character
RECURSIVE mapChars(_, _)
mapChars(cleaned, acc) ==
  IF cleaned = << >> THEN [kind |-> "ok", pattern |-> acc]
  ELSE LET value == indexOf(Head(cleaned))
       IN  IF value = -1
           THEN [kind |-> "InvalidCharacter", char |-> Head(cleaned)]
           ELSE mapChars(Tail(cleaned), Append(acc, value))

\* pattern.every((value) => value === 0)
RECURSIVE everyZero(_)
everyZero(p) ==
  IF p = << >> THEN TRUE
  ELSE IF Head(p) # 0 THEN FALSE ELSE everyZero(Tail(p))

\* pattern.reduce((acc, value) => acc + value, 0)
RECURSIVE sumOf(_)
sumOf(p) == IF p = << >> THEN 0 ELSE Head(p) + sumOf(Tail(p))

\* faulty variant: the average is only tested for being a finite number
isIntegerQuotient_IsFinite(sum, period) == period # 0

\* Number.isInteger(sum / period): the quotient of two small naturals is a
\* whole number exactly when the division leaves no remainder
isIntegerQuotient(sum, period) == sum % period = 0

\* balls = sum / period, when it is a whole number
ballsOf(sum, period) == sum \div period

\* faulty variant: the landing slot forgets the throw's own index
landingSlot_NoIndex(index, value, period) == value % period

\* landing = (index + value) % period, index zero-based
landingSlot(index, value, period) == (index + value) % period

\* does the forEach loop skip this throw ("if (value === 0) return")
skipsThrow(value) == value = 0

\* the forEach loop over the pattern with the landings Set; TRUE when it throws
RECURSIVE hasCollisionFrom(_, _, _)
hasCollisionFrom(p, index, landings) ==
  IF index >= Len(p) THEN FALSE
  ELSE LET value == p[index + 1]
       IN  IF skipsThrow(value) THEN hasCollisionFrom(p, index + 1, landings)
           ELSE LET landing == landingSlot(index, value, Len(p))
                IN  IF landing \in landings THEN TRUE
                    ELSE hasCollisionFrom(p, index + 1, landings \cup {landing})

hasCollision(p) == hasCollisionFrom(p, 0, {})

\* faulty variant: the first element is taken for the largest
maxOf_Head(p) == Head(p)

\* Math.max(...pattern)
RECURSIVE maxOf(_)
maxOf(p) ==
  IF Len(p) = 1 THEN Head(p)
  ELSE LET m == maxOf(Tail(p)) IN IF Head(p) > m THEN Head(p) ELSE m

\* faulty variant: the collision check runs before the integer-average check
validatePattern_CollisionFirst(p) ==
  IF everyZero(p) THEN [kind |-> "AllZeroPattern"]
  ELSE LET period == Len(p)
           sum == sumOf(p)
       IN  IF hasCollision(p) THEN [kind |-> "LandingCollision"]
           ELSE IF ~isIntegerQuotient(sum, period) THEN [kind |-> "NonIntegerAverage"]
           ELSE IF ballsOf(sum, period) < 1 THEN [kind |-> "ZeroBalls"]
           ELSE [kind |-> "ok", pattern |-> p, period |-> period,
                 balls |-> ballsOf(sum, period), maxThrow |-> maxOf(p)]

\* the checks that follow the character loop, in source order
validatePattern(p) ==
  IF everyZero(p) THEN [kind |-> "AllZeroPattern"]
  ELSE LET period == Len(p)
           sum == sumOf(p)
       IN  IF ~isIntegerQuotient(sum, period) THEN [kind |-> "NonIntegerAverage"]
           ELSE IF hasCollision(p) THEN [kind |-> "LandingCollision"]
           ELSE IF ballsOf(sum, period) < 1 THEN [kind |-> "ZeroBalls"]
           ELSE [kind |-> "ok", pattern |-> p, period |-> period,
                 balls |-> ballsOf(sum, period), maxThrow |-> maxOf(p)]

parseSiteswap(rawInput) ==
  LET cleaned == cleanedOf(rawInput)
  IN  IF cleaned = << >> THEN [kind |-> "EmptyPattern"]
      ELSE LET mapped == mapChars(cleaned, << >>)
           IN  IF mapped.kind # "ok" THEN mapped
               ELSE validatePattern(mapped.pattern)

\* ------------------------------------------------- buildSimulationPlan
Max(a, b) == IF a >= b THEN a ELSE b

totalBeatsOf(loopCount, period) == Max(loopCount * period, period)

throwValueAt(p, b) == p[(b % Len(p)) + 1]

fromHandOf(b) == IF b % 2 = 0 THEN "left" ELSE "right"

\* faulty variant: the catching hand is computed from the beat alone
toHandOf_IgnoresThrow(b, throwValue) == IF b % 2 = 0 THEN "left" ELSE "right"

toHandOf(b, throwValue) == IF (b + throwValue) % 2 = 0 THEN "left" ELSE "right"

\* faulty variant: the fallback identity is the beat itself, not reduced
fallbackId_NoMod(b, ballCount) == b

\* beat % balls
fallbackId(b, ballCount) == IF ballCount = 0 THEN NaN ELSE b % ballCount

\* faulty variant: an unused identifier is preferred to the pending landing
branchOf_FreshFirst(catches, nextId, ballCount, b) ==
  IF nextId < ballCount THEN "fresh"
  ELSE IF b \in DOMAIN catches THEN "pending"
  ELSE "fallback"

\* which of the three identity branches the iteration takes
branchOf(catches, nextId, ballCount, b) ==
  IF b \in DOMAIN catches THEN "pending"
  ELSE IF nextId < ballCount THEN "fresh"
  ELSE "fallback"

ballIdOf(catches, nextId, ballCount, b) ==
  CASE branchOf(catches, nextId, ballCount, b) = "pending" -> catches[b]
    [] branchOf(catches, nextId, ballCount, b) = "fresh" -> nextId
    [] OTHER -> fallbackId(b, ballCount)

\* catchAssignments.delete(beat), done only in the pending branch
afterDelete(catches, b) == [k \in (DOMAIN catches) \ {b} |-> catches[k]]

landingBeatOf(b, throwValue) == b + throwValue

\* does the iteration throw a ball ("if (throwValue > 0)")
isThrow(throwValue) == throwValue > 0

\* catchAssignments.set(landingBeat, ballId)
afterSet(catches, k, v) == [x \in (DOMAIN catches) \cup {k} |-> IF x = k THEN v ELSE catches[x]]

newFlight(ballId, throwValue, b) ==
  [id |-> << ballId, b >>, ballId |-> ballId, throwValue |-> throwValue,
   startBeat |-> b, endBeat |-> landingBeatOf(b, throwValue),
   fromHand |-> fromHandOf(b), toHand |-> toHandOf(b, throwValue)]

\* faulty variant: the flight is put at the front of the list
pushFlight_Prepend(fs, f) == << f >> \o fs

\* flights.push(flight)
pushFlight(fs, f) == Append(fs, f)

EmptyMap == [k \in {} |-> 0]
NoPlan == [flights |-> << >>, beats |-> -1]

VARIABLES
  pc,               \* "idle", "parsed", "loop", "returned", "threw"
  rawInput,         \* the text handed to parseSiteswap
  parsed,           \* outcome of parseSiteswap: data or the failure
  pattern, balls, loops,     \* arguments of buildSimulationPlan
  totalBeats, beat,          \* loop bound and loop counter
  catchAssignments,          \* the pending-landing table
  nextBallId,
  flights,
  branches,         \* history: beat -> identity branch taken at that beat
  plan              \* the returned SimulationPlan

vars == << pc, rawInput, parsed, pattern, balls, loops, totalBeats, beat,
           catchAssignments, nextBallId, flights, branches, plan >>

plannerVars == << pattern, balls, loops, totalBeats, beat,
                  catchAssignments, nextBallId, flights, branches, plan >>

Init ==
  /\ pc = "idle"
  /\ rawInput = << >>
  /\ parsed = [kind |-> "none"]
  /\ pattern = << >>
  /\ balls = 0
  /\ loops = 0
  /\ totalBeats = 0
  /\ beat = 0
  /\ catchAssignments = EmptyMap
  /\ nextBallId = 0
  /\ flights = << >>
  /\ branches = EmptyMap
  /\ plan = NoPlan

\* The user's text is parsed; a failure is kept as the error to display.
ParseInput ==
  /\ pc = "idle"
  /\ \E raw \in RawInputs :
       /\ rawInput' = raw
       /\ parsed' = parseSiteswap(raw)
  /\ pc' = "parsed"
  /\ UNCHANGED plannerVars

\* entry of buildSimulationPlan: everything before the for-loop
EnterPlan(p, ballCount, loopCount) ==
  /\ pattern' = p
  /\ balls' = ballCount
  /\ loops' = loopCount
  /\ totalBeats' = totalBeatsOf(loopCount, Len(p))
  /\ beat' = 0
  /\ catchAssignments' = EmptyMap
  /\ nextBallId' = 0
  /\ flights' = << >>
  /\ branches' = EmptyMap
  /\ plan' = NoPlan
  /\ pc' = "loop"

\* The application plans the parsed pattern with the validator's ball count.
PlanParsed ==
  /\ pc = "parsed"
  /\ parsed.kind = "ok"
  /\ \E loopCount \in 0..MaxLoops :
       EnterPlan(parsed.pattern, parsed.balls, loopCount)
  /\ UNCHANGED << rawInput, parsed >>

\* Any other caller of the exported planner: no validation in between.
PlanDirect ==
  /\ pc = "idle"
  /\ \E p \in DirectPatterns, ballCount \in 0..MaxBalls, loopCount \in 0..MaxLoops :
       EnterPlan(p, ballCount, loopCount)
  /\ UNCHANGED << rawInput, parsed >>

\* One iteration of the for-loop that completes.
Beat ==
  /\ pc = "loop"
  /\ beat < totalBeats
  /\ LET throwValue == throwValueAt(pattern, beat)
         branch == branchOf(catchAssignments, nextBallId, balls, beat)
         ballId == ballIdOf(catchAssignments, nextBallId, balls, beat)
         remaining == IF branch = "pending"
                      THEN afterDelete(catchAssignments, beat)
                      ELSE catchAssignments
         landingBeat == landingBeatOf(beat, throwValue)
     IN  /\ nextBallId' = IF branch = "fresh" THEN nextBallId + 1 ELSE nextBallId
         /\ branches' = afterSet(branches, beat, branch)
         /\ IF isThrow(throwValue)
            THEN /\ landingBeat \notin DOMAIN remaining
                 /\ catchAssignments' = afterSet(remaining, landingBeat, ballId)
                 /\ flights' = pushFlight(flights, newFlight(ballId, throwValue, beat))
            ELSE /\ catchAssignments' = remaining
                 /\ flights' = flights
  /\ beat' = beat + 1
  /\ UNCHANGED << pc, rawInput, parsed, pattern, balls, loops, totalBeats, plan >>

\* The iteration that finds the landing beat taken and throws.
BeatConflict ==
  /\ pc = "loop"
  /\ beat < totalBeats
  /\ LET throwValue == throwValueAt(pattern, beat)
         branch == branchOf(catchAssignments, nextBallId, balls, beat)
         remaining == IF branch = "pending"
                      THEN afterDelete(catchAssignments, beat)
                      ELSE catchAssignments
     IN  /\ isThrow(throwValue)
         /\ landingBeatOf(beat, throwValue) \in DOMAIN remaining
         /\ nextBallId' = IF branch = "fresh" THEN nextBallId + 1 ELSE nextBallId
         /\ branches' = afterSet(branches, beat, branch)
         /\ catchAssignments' = remaining
  /\ pc' = "threw"
  /\ UNCHANGED << rawInput, parsed, pattern, balls, loops, totalBeats, beat,
                  flights, plan >>

\* The loop is over: return { flights, beats: totalBeats }.
Return ==
  /\ pc = "loop"
  /\ beat >= totalBeats
  /\ plan' = [flights |-> flights, beats |-> totalBeats]
  /\ pc' = "returned"
  /\ UNCHANGED << rawInput, parsed, pattern, balls, loops, totalBeats, beat,
                  catchAssignments, nextBallId, flights, branches >>

Next ==
  \/ ParseInput
  \/ PlanParsed
  \/ PlanDirect
  \/ Beat
  \/ BeatConflict
  \/ Return

Spec == Init /\ [][Next]_vars

\* ================================================================ claims
\* the planner runs, or has run, on a pattern parseSiteswap accepts, with
\* the ball count parseSiteswap returns for it
Valid ==
  /\ pc \in {"loop", "returned", "threw"}
  /\ validatePattern(pattern).kind = "ok"
  /\ balls = validatePattern(pattern).balls

Airborne(f, g) == f.startBeat < g.endBeat /\ g.startBeat < f.endBeat

\* C1: on a pattern the validator accepts, planned with the validator's ball
\* count, the planner never raises the landing conflict: no iteration with a
\* throw finds its landing beat already in the pending-landing table.
C1_NoLandingConflict ==
  Valid =>
    /\ pc # "threw"
    /\ (pc = "loop" /\ beat < totalBeats /\ throwValueAt(pattern, beat) > 0) =>
         LET remaining == (DOMAIN catchAssignments) \ {beat}
         IN  (beat + throwValueAt(pattern, beat)) \notin remaining

\* a validated plan in which landings were consumed over more than one period
C1_Witness ==
  /\ Valid
  /\ pc = "returned"
  /\ totalBeats > Len(pattern)
  /\ Len(plan.flights) >= 3
  /\ \E b \in DOMAIN branches : branches[b] = "pending"

\* C2: the plan of a validated pattern never has two distinct Flights of the
\* same ballId whose intervals [startBeat, endBeat) overlap.
C2_NoSameBallOverlap ==
  (Valid /\ pc = "returned") =>
    \A i, j \in DOMAIN plan.flights :
      (i # j /\ plan.flights[i].ballId = plan.flights[j].ballId) =>
        ~Airborne(plan.flights[i], plan.flights[j])

\* C3: while a validated pattern is planned, after every beat the
\* pending-landing table holds at most balls entries.
C3_PendingAtMostBalls ==
  (Valid /\ pc \in {"loop", "returned"}) =>
    Cardinality(DOMAIN catchAssignments) <= balls

\* C4: on a validated pattern the fallback identity (beat mod balls) is
\* taken only on beats whose throw height is 0, so no Flight carries it.
C4_FallbackOnlyOnZero ==
  Valid =>
    \A b \in DOMAIN branches :
      branches[b] = "fallback" => throwValueAt(pattern, b) = 0

\* C5: the returned flights hold exactly one Flight for each beat of
\* [0, totalBeats) whose height is positive, none for any other beat, in
\* strictly ascending startBeat order.
C5_OneFlightPerThrowBeat ==
  pc = "returned" =>
    /\ \A i \in DOMAIN plan.flights : plan.flights[i].startBeat \in 0..(plan.beats - 1)
    /\ \A b \in 0..(plan.beats - 1) :
         Cardinality({i \in DOMAIN plan.flights : plan.flights[i].startBeat = b})
           = IF pattern[(b % Len(pattern)) + 1] > 0 THEN 1 ELSE 0
    /\ \A i, j \in DOMAIN plan.flights :
         i < j => plan.flights[i].startBeat < plan.flights[j].startBeat

\* a returned plan with several flights and a beat that throws nothing
C5_Witness ==
  /\ pc = "returned"
  /\ Len(plan.flights) >= 3
  /\ \E b \in 0..(plan.beats - 1) : pattern[(b % Len(pattern)) + 1] = 0

\* C6: with balls >= 1, every Flight's ballId of a returned plan lies in
\* [0, balls), whichever identity branch produced it.
C6_BallIdInRange ==
  (pc = "returned" /\ balls >= 1) =>
    \A i \in DOMAIN plan.flights :
      plan.flights[i].ballId \in 0..(balls - 1)

\* a returned plan holding a Flight from each of the three branches
C6_Witness ==
  /\ pc = "returned"
  /\ balls >= 1
  /\ \A br \in {"pending", "fresh", "fallback"} :
       \E i \in DOMAIN plan.flights : branches[plan.flights[i].startBeat] = br

\* ---- the six failure conditions, stated on the normalized input
Alphabet == {CHAR_MAP[k] : k \in DOMAIN CHAR_MAP}
Heights(n) == [i \in 1..Len(n) |-> (CHOOSE k \in DOMAIN CHAR_MAP : CHAR_MAP[k] = n[i]) - 1]
RECURSIVE SumTo(_, _)
SumTo(h, n) == IF n = 0 THEN 0 ELSE h[n] + SumTo(h, n - 1)
Total(h) == SumTo(h, Len(h))
EmptyCond(n) == Len(n) = 0
InvalidCond(n) == \E i \in 1..Len(n) : n[i] \notin Alphabet
AllZeroCond(h) == \A i \in 1..Len(h) : h[i] = 0
NonIntegerCond(h) == ~\E q \in 0..Total(h) : q * Len(h) = Total(h)
CollisionCond(h) ==
  \E i, j \in 1..Len(h) :
    /\ i < j /\ h[i] > 0 /\ h[j] > 0
    /\ ((i - 1) + h[i]) % Len(h) = ((j - 1) + h[j]) % Len(h)
ZeroBallsCond(h) == Total(h) < Len(h)

FirstFailure(n) ==
  IF EmptyCond(n) THEN "EmptyPattern"
  ELSE IF InvalidCond(n) THEN "InvalidCharacter"
  ELSE IF AllZeroCond(Heights(n)) THEN "AllZeroPattern"
  ELSE IF NonIntegerCond(Heights(n)) THEN "NonIntegerAverage"
  ELSE IF CollisionCond(Heights(n)) THEN "LandingCollision"
  ELSE IF ZeroBallsCond(Heights(n)) THEN "ZeroBalls"
  ELSE "ok"

Outcomes == {"EmptyPattern", "InvalidCharacter", "AllZeroPattern",
             "NonIntegerAverage", "LandingCollision", "ZeroBalls", "ok"}

C8_RecordConsistent ==
  parsed.kind = "ok" =>
    /\ parsed.balls \in Nat /\ parsed.balls >= 1
    /\ parsed.balls * parsed.period = Total(parsed.pattern)
    /\ parsed.period = Len(parsed.pattern)
    /\ \E i \in DOMAIN parsed.pattern : parsed.pattern[i] = parsed.maxThrow
    /\ \A i \in DOMAIN parsed.pattern : parsed.pattern[i] <= parsed.maxThrow

\* an accepted pattern of several balls whose largest throw is not its first
C8_Witness ==
  /\ parsed.kind = "ok"
  /\ parsed.period >= 3
  /\ parsed.balls >= 2
  /\ parsed.maxThrow # parsed.pattern[1]

\* C9: every Flight of a returned plan has endBeat = startBeat + throwValue,
\* fromHand "left" exactly on an even startBeat and toHand "left" exactly on
\* an even endBeat; its hands differ exactly when throwValue is odd.
C9_HandsByParity ==
  pc = "returned" =>
    \A i \in DOMAIN plan.flights :
      LET f == plan.flights[i] IN
      /\ f.endBeat = f.startBeat + f.throwValue
      /\ f.fromHand \in {"left", "right"} /\ f.toHand \in {"left", "right"}
      /\ f.fromHand = "left" <=> f.startBeat % 2 = 0
      /\ f.toHand = "left" <=> f.endBeat % 2 = 0
      /\ f.fromHand # f.toHand <=> f.throwValue % 2 = 1

\* a returned plan with an odd throw, an even throw and a throw from the
\* right hand
C9_Witness ==
  /\ pc = "returned"
  /\ \E i \in DOMAIN plan.flights : plan.flights[i].throwValue % 2 = 1
  /\ \E i \in DOMAIN plan.flights : plan.flights[i].throwValue % 2 = 0
  /\ \E i \in DOMAIN plan.flights : plan.flights[i].fromHand = "right"

IdentityCarried ==
  pc = "returned" =>
    \A i, j \in DOMAIN plan.flights :
      plan.flights[j].startBeat = plan.flights[i].endBeat =>
        plan.flights[j].ballId = plan.flights[i].ballId

RemovedOnlyAtItsBeat ==
  \A k \in DOMAIN catchAssignments :
    k \notin DOMAIN catchAssignments' =>
      pc = "loop" /\ beat = k /\ beat < totalBeats

\* C10: a Flight that starts at the beat where an earlier Flight ends has
\* that Flight's ballId, and a pending-landing entry for beat b leaves the
\* table only in the iteration that processes beat b.
C10_IdentityCarried ==
  /\ []IdentityCarried
  /\ [][RemovedOnlyAtItsBeat]_vars

\* a returned plan in which a Flight starts where an earlier one ended
C10_Witness ==
  /\ pc = "returned"
  /\ \E i, j \in DOMAIN plan.flights :
       /\ plan.flights[j].startBeat = plan.flights[i].endBeat
       /\ branches[plan.flights[j].startBeat] = "pending"
       /\ plan.flights[j].startBeat \notin DOMAIN catchAssignments

\* C11: parseSiteswap never fails with ZeroBalls: an input that passes the
\* empty, invalid-character, all-zero, integer-average and landing-collision
\* checks already has sum / period >= 1, so the last guard is never taken.
C11_ZeroBallsUnreachable ==
  /\ parsed.kind # "ZeroBalls"
  /\ parsed.kind \notin {"none", "EmptyPattern", "InvalidCharacter", "AllZeroPattern",
                         "NonIntegerAverage", "LandingCollision"} =>
       LET h == Heights(cleanedOf(rawInput))
       IN  Total(h) >= Len(h) /\ ~ZeroBallsCond(h)

\* an input with zero throws in it reaches the last guard with exactly one ball
C11_Witness ==
  /\ parsed.kind = "ok"
  /\ parsed.balls = 1
  /\ parsed.period >= 2
  /\ \E i \in DOMAIN parsed.pattern : parsed.pattern[i] = 0

====
